---------------------------- MODULE Spec2Model ----------------------------
(***************************************************************************)
(* Model of privacyscanner's fingerprinting extractor                      *)
(* (scanmodules/chromedevtools/extractors/fingerprinting.py):              *)
(*   - the host side, FingerprintingExtractor: receive_log routes log      *)
(*     events to four category handlers, extract_information publishes     *)
(*     the category dictionaries and runs _extract_canvas;                 *)
(*   - the page side, INSTRUMENTATION_JS: the wrapper instrumentFunction   *)
(*     returns.                                                            *)
(* Python's None is the empty sequence and a present value x is <<x>>.     *)
(* A Python or JavaScript string is a sequence of one-character strings.   *)
(***************************************************************************)
EXTENDS Integers, Sequences, FiniteSets, TLC

\* Bounds of the model: log events delivered, extract_information calls,
\* objects of a prototype chain.
MaxEvents == 3
MaxExtract == 2
MaxChain == 3

VARIABLES
    canvas,             \* self._canvas (a dict: calls, is_fingerprinting[, call_stack])
    audio,              \* self._audio
    webgl,              \* self._webgl
    misc,               \* self._misc
    canvas_call_stack,  \* self._canvas_call_stack
    audio_call_stack,   \* self._audio_call_stack
    webgl_call_stack,   \* self._webgl_call_stack
    misc_call_stack,    \* self._misc_call_stack
    canvas_image,       \* self._canvas_image
    result_fingerprinting, \* self.result['fingerprinting']: category -> the dict it refers to
    files,              \* the calls of self.result.add_file, in order
    raised,             \* the exception the last call of the extractor raised, or "none"
    received,           \* history: per channel, the messages delivered (without retval)
    last_export,        \* history: the most recent toDataURL event (message, call stack)
    n_events,           \* history: number of receive_log calls
    n_extract,          \* history: number of extract_information calls
    js,                 \* page side: the last call of an instrumented function or accessor
    ip,                 \* page side: the activation of instrumentProperty
    net                 \* network module: the activation of scan_site

pyvars == <<canvas, audio, webgl, misc, canvas_call_stack, audio_call_stack,
            webgl_call_stack, misc_call_stack, canvas_image,
            result_fingerprinting, files, raised>>
histvars == <<received, last_export, n_events, n_extract>>
othervars == <<ip, net>>
vars == <<pyvars, histvars, js, othervars>>

None == <<>>
Some(x) == <<x>>
IsNone(o) == o = <<>>
Val(o) == o[1]

-----------------------------------------------------------------------------
(* Strings, and the library calls _extract_canvas makes on them.           *)

Str_base64 == <<"b", "a", "s", "e", "6", "4">>
Comma == ","

\* sub in s  (Python's substring test)
str_contains(s, sub) ==
    \E i \in 1..(Len(s) - Len(sub) + 1) : SubSeq(s, i, i + Len(sub) - 1) = sub

\* s.split(',', 1): a list of one element when s has no comma, else of two.
str_split_once(s) ==
    IF \E i \in 1..Len(s) : s[i] = Comma
    THEN LET i == CHOOSE k \in 1..Len(s) :
                      s[k] = Comma /\ \A j \in 1..(k - 1) : s[j] # Comma
         IN <<SubSeq(s, 1, i - 1), SubSeq(s, i + 1, Len(s))>>
    ELSE <<s>>

B64Alphabet ==
    <<"A", "B", "C", "D", "E", "F", "G", "H", "I", "J", "K", "L", "M",
      "N", "O", "P", "Q", "R", "S", "T", "U", "V", "W", "X", "Y", "Z",
      "a", "b", "c", "d", "e", "f", "g", "h", "i", "j", "k", "l", "m",
      "n", "o", "p", "q", "r", "s", "t", "u", "v", "w", "x", "y", "z",
      "0", "1", "2", "3", "4", "5", "6", "7", "8", "9", "+", "/">>
B64Pad == "="
IsB64Char(c) == \E i \in 1..64 : B64Alphabet[i] = c
B64Val(c) == (CHOOSE i \in 1..64 : B64Alphabet[i] = c) - 1

\* base64.b64decode(s) with validate=False, as binascii.a2b_base64 computes it:
\* characters outside the alphabet are skipped, a completed pad sequence ends
\* the input, and an incomplete quad is binascii.Error (a ValueError).
\* st = [quad_pos, leftchar, pads, out, done].
RECURSIVE a2b_base64(_, _, _)
a2b_base64(s, i, st) ==
    IF st.done \/ i > Len(s) THEN st
    ELSE LET c == s[i] IN
         IF c = B64Pad
         THEN IF st.quad_pos >= 2 /\ st.quad_pos + st.pads + 1 >= 4
              THEN [st EXCEPT !.done = TRUE]
              ELSE a2b_base64(s, i + 1,
                       IF st.quad_pos >= 2 THEN [st EXCEPT !.pads = @ + 1] ELSE st)
         ELSE IF ~IsB64Char(c)
         THEN a2b_base64(s, i + 1, st)
         ELSE LET v == B64Val(c)
                  q == st.quad_pos
                  byte == CASE q = 1 -> (st.leftchar * 4 + v \div 16) % 256
                            [] q = 2 -> (st.leftchar * 16 + v \div 4) % 256
                            [] q = 3 -> (st.leftchar * 64 + v) % 256
                            [] OTHER -> 0
                  left == CASE q = 0 -> v
                            [] q = 1 -> v % 16
                            [] q = 2 -> v % 4
                            [] OTHER -> 0
              IN a2b_base64(s, i + 1,
                     [quad_pos |-> (q + 1) % 4,
                      leftchar |-> left,
                      pads |-> 0,
                      out |-> IF q = 0 THEN st.out ELSE Append(st.out, byte),
                      done |-> FALSE])

\* [ok |-> FALSE] stands for binascii.Error; otherwise the bytes.
b64decode(s) ==
    LET st == a2b_base64(s, 1, [quad_pos |-> 0, leftchar |-> 0, pads |-> 0,
                                out |-> <<>>, done |-> FALSE])
    IN IF st.done \/ st.quad_pos = 0
       THEN [ok |-> TRUE, bytes |-> st.out]
       ELSE [ok |-> FALSE, bytes |-> <<>>]


-----------------------------------------------------------------------------
(* The values the page sends: JSON values, messages, call stacks.          *)

JsString(chars) == [kind |-> "string", chars |-> chars]
JsNull == [kind |-> "null", chars |-> <<>>]
JsUndefined == [kind |-> "undefined", chars |-> <<>>]

\* Return values of HTMLCanvasElement.toDataURL, as the log event carries them.
Url_A == <<";", "b", "a", "s", "e", "6", "4", ",", "Q", "Q", "=", "=">>
Url_B == <<";", "b", "a", "s", "e", "6", "4", ",", "Q", "g", "=", "=">>
Url_EmptyPayload == <<";", "b", "a", "s", "e", "6", "4", ",">>
Url_BadPayload == <<";", "b", "a", "s", "e", "6", "4", ",", "Q">>
Url_TwoCommas == <<";", "b", "a", "s", "e", "6", "4", ",", "Q", "Q", ",", "=", "=">>
Url_NoComma == <<"n", "o", "t", "-", "a", "-", "u", "r", "l">>
Url_Plain == <<"t", "e", "x", "t", ",", "h", "i">>
ExportRetvals ==
    {JsString(Url_A), JsString(Url_B), JsString(Url_EmptyPayload),
     JsString(Url_BadPayload), JsString(Url_TwoCommas), JsString(Url_NoComma),
     JsString(Url_Plain), JsNull}

FunctionMessage(name, arguments, retval) ==
    [type |-> "function", name |-> name, arguments |-> arguments, retval |-> retval]
PropertyMessage(name, value, access) ==
    [type |-> "property", name |-> name, value |-> value, access |-> access]

text_methods == {"CanvasRenderingContext2D.fillText",
                 "CanvasRenderingContext2D.strokeText"}
export_method == "HTMLCanvasElement.toDataURL"
listofcheckedproperties == {"userAgent", "language", "languages", "colorDepth"}

Channels == {"fingerprinting:canvas", "fingerprinting:audio",
             "fingerprinting:webgl", "fingerprinting:misc"}
\* A channel name no handler is bound to.
OtherChannels == {"fingerprinting:Canvas"}
LogTypes == Channels \cup OtherChannels

\* What INSTRUMENTATION_JS emits on each channel (the instrumentation table).
CanvasMessages ==
    {FunctionMessage(m, <<"hi">>, JsUndefined) : m \in text_methods}
    \cup {FunctionMessage(export_method, <<>>, r) : r \in ExportRetvals}
AudioMessages ==
    {FunctionMessage("AudioContext.createAnalyser", a, JsNull) : a \in {<<>>, <<"x">>}}
WebglMessages ==
    {FunctionMessage("WebGLRenderingContext.getParameter", a, JsNull) :
        a \in {<<"7936">>, <<"7937">>}}
    \cup {FunctionMessage("WebGLRenderingContext.readPixels", <<"7936">>, JsUndefined)}
MiscMessages ==
    {FunctionMessage("localStorage.setItem", <<"k", "v">>, JsUndefined),
     FunctionMessage("localStorage.getItem", <<"k">>, JsNull),
     PropertyMessage("userAgent", "X", "get"),
     PropertyMessage("userAgent", "X", "set"),
     PropertyMessage("platform", "X", "get")}
MessagesOn(log_type) ==
    CASE log_type = "fingerprinting:canvas" -> CanvasMessages
      [] log_type = "fingerprinting:audio" -> AudioMessages
      [] log_type = "fingerprinting:webgl" -> WebglMessages
      [] log_type = "fingerprinting:misc" -> MiscMessages
      [] OTHER -> {FunctionMessage("console.log", <<>>, JsUndefined)}

\* Call stacks delivered with an event: the first frame is the logging wrapper.
CallStacks == {<<"wrapper">>, <<"wrapper", "page.js">>}

-----------------------------------------------------------------------------
(* FingerprintingExtractor.                                                *)

\* d[k] = v on a dict
SetItem(d, k, v) == [x \in (DOMAIN d) \cup {k} |-> IF x = k THEN v ELSE d[x]]
HasKey(d, k) == k \in DOMAIN d

NewCategory == [calls |-> <<>>, is_fingerprinting |-> FALSE]

Init ==
    /\ canvas = NewCategory
    /\ audio = NewCategory
    /\ webgl = NewCategory
    /\ misc = NewCategory
    /\ canvas_call_stack = None
    /\ audio_call_stack = None
    /\ webgl_call_stack = None
    /\ misc_call_stack = None
    /\ canvas_image = None
    /\ result_fingerprinting = None
    /\ files = <<>>
    /\ raised = "none"
    /\ received = [c \in Channels |-> <<>>]
    /\ last_export = None
    /\ n_events = 0
    /\ n_extract = 0
    /\ js = [called |-> FALSE]
    /\ ip = [pc |-> "idle"]
    /\ net = [pc |-> "idle"]

calldict(message) == [method |-> message.name, arguments |-> message.arguments]

\* call_stack[1:]
strip_first_frame(call_stack) == SubSeq(call_stack, 2, Len(call_stack))

\* Variant: the canvas handler dedups like the other three.
canvas_after_log_dedup(message) ==
    IF \E i \in 1..Len(canvas.calls) : canvas.calls[i] = calldict(message)
    THEN canvas
    ELSE [canvas EXCEPT !.calls = Append(@, calldict(message))]

\* Variant: the canvas handler marks the verdict as soon as an export arrives.
canvas_after_log_eager(message) ==
    [canvas EXCEPT !.calls = Append(@, calldict(message)),
                   !.is_fingerprinting = @ \/ message.name = export_method]

\* self._canvas after lines 184-187: the call appended, nothing else written
canvas_after_log(message) == [canvas EXCEPT !.calls = Append(@, calldict(message))]

\* Variant: the first export is kept, later ones are dropped.
canvas_capture_first(message, call_stack) ==
    IF message.name = export_method /\ IsNone(canvas_call_stack)
    THEN <<Some(strip_first_frame(call_stack)), Some(message.retval)>>
    ELSE <<canvas_call_stack, canvas_image>>

\* Variant: every canvas event overwrites the captures, not only an export.
canvas_capture_any(message, call_stack) ==
    <<Some(strip_first_frame(call_stack)), Some(message.retval)>>

\* the captures of an export (lines 188-194), as <<_canvas_call_stack, _canvas_image>>
canvas_capture(message, call_stack) ==
    IF message.name = export_method
    THEN <<Some(strip_first_frame(call_stack)), Some(message.retval)>>
    ELSE <<canvas_call_stack, canvas_image>>

receive_canvas_log(message, call_stack) ==
    /\ canvas' = canvas_after_log(message)
    /\ canvas_call_stack' = canvas_capture(message, call_stack)[1]
    /\ canvas_image' = canvas_capture(message, call_stack)[2]
    /\ raised' = "none"
    /\ UNCHANGED <<audio, webgl, misc, audio_call_stack, webgl_call_stack,
                   misc_call_stack, result_fingerprinting, files>>

\* Variant: every record is appended.
append_always(calls, record) == Append(calls, record)

\* Variant: a new record is inserted at the front.
prepend_if_new(calls, record) ==
    IF \E i \in 1..Len(calls) : calls[i] = record THEN calls ELSE <<record>> \o calls

\* if calldict not in calls: calls.append(calldict)
append_if_new(calls, record) ==
    IF \E i \in 1..Len(calls) : calls[i] = record THEN calls ELSE Append(calls, record)

\* Variant: the audio handler's commented-out capture is live.
audio_stack_captured(call_stack) == Some(call_stack)

\* The audio and webgl handlers leave the call stack alone (lines 203, 212).
audio_stack_after(call_stack) == audio_call_stack
webgl_stack_after(call_stack) == webgl_call_stack
misc_stack_after(call_stack) == misc_call_stack

receive_audio_log(message, call_stack) ==
    /\ audio' = [audio EXCEPT !.calls = append_if_new(@, calldict(message))]
    /\ audio_call_stack' = audio_stack_after(call_stack)
    /\ raised' = "none"
    /\ UNCHANGED <<canvas, webgl, misc, canvas_call_stack, webgl_call_stack,
                   misc_call_stack, canvas_image, result_fingerprinting, files>>

receive_webgl_log(message, call_stack) ==
    /\ webgl' = [webgl EXCEPT !.calls = append_if_new(@, calldict(message))]
    /\ webgl_call_stack' = webgl_stack_after(call_stack)
    /\ raised' = "none"
    /\ UNCHANGED <<canvas, audio, misc, canvas_call_stack, audio_call_stack,
                   misc_call_stack, canvas_image, result_fingerprinting, files>>

\* Variant: any message carrying a value is stored as a property record.
misc_calldict_lenient(message) ==
    IF message.name \in listofcheckedproperties \/ "value" \in DOMAIN message
    THEN Some([property |-> message.name, value |-> message.value])
    ELSE IF "arguments" \in DOMAIN message
    THEN Some([method |-> message.name, arguments |-> message.arguments])
    ELSE None

\* Variant: a tracked accessor is stored under the method key.
misc_calldict_mixed(message) ==
    IF message.name \in listofcheckedproperties
    THEN Some([method |-> message.name, value |-> message.value])
    ELSE IF "arguments" \in DOMAIN message
    THEN Some([method |-> message.name, arguments |-> message.arguments])
    ELSE None

\* Variant: the access kind is kept in the stored record.
misc_calldict_with_access(message) ==
    IF message.name \in listofcheckedproperties
    THEN Some([property |-> message.name, value |-> message.value,
               access |-> message.access])
    ELSE IF "arguments" \in DOMAIN message
    THEN Some([method |-> message.name, arguments |-> message.arguments])
    ELSE None

\* The record the misc handler builds (lines 216-225): None when neither
\* branch binds calldict.
misc_calldict(message) ==
    IF message.name \in listofcheckedproperties
    THEN Some([property |-> message.name, value |-> message.value])
    ELSE IF "arguments" \in DOMAIN message
    THEN Some([method |-> message.name, arguments |-> message.arguments])
    ELSE None

\* Reading the unbound local at line 226 raises UnboundLocalError.
receive_misc_log(message, call_stack) ==
    LET cd == misc_calldict(message) IN
    /\ misc' = IF IsNone(cd) THEN misc
               ELSE [misc EXCEPT !.calls = append_if_new(@, Val(cd))]
    /\ raised' = IF IsNone(cd) THEN "UnboundLocalError" ELSE "none"
    /\ misc_call_stack' = misc_stack_after(call_stack)
    /\ UNCHANGED <<canvas, audio, webgl, canvas_call_stack, audio_call_stack,
                   webgl_call_stack, canvas_image, result_fingerprinting, files>>

\* Variant: the canvas channel is matched without regard to case.
route_ignoring_case(log_type) ==
    CASE log_type \in {"fingerprinting:canvas", "fingerprinting:Canvas"} -> "canvas"
      [] log_type = "fingerprinting:audio" -> "audio"
      [] log_type = "fingerprinting:webgl" -> "webgl"
      [] log_type = "fingerprinting:misc" -> "misc"
      [] OTHER -> ""

\* The handler a log type is routed to (lines 144-151), "" when to none.
route(log_type) ==
    CASE log_type = "fingerprinting:canvas" -> "canvas"
      [] log_type = "fingerprinting:audio" -> "audio"
      [] log_type = "fingerprinting:webgl" -> "webgl"
      [] log_type = "fingerprinting:misc" -> "misc"
      [] OTHER -> ""

receive_log(log_type, message, call_stack) ==
    \/ route(log_type) = "canvas" /\ receive_canvas_log(message, call_stack)
    \/ route(log_type) = "audio" /\ receive_audio_log(message, call_stack)
    \/ route(log_type) = "webgl" /\ receive_webgl_log(message, call_stack)
    \/ route(log_type) = "misc" /\ receive_misc_log(message, call_stack)
    \/ route(log_type) = "" /\ raised' = "none"
       /\ UNCHANGED <<canvas, audio, webgl, misc, canvas_call_stack, audio_call_stack,
                      webgl_call_stack, misc_call_stack, canvas_image,
                      result_fingerprinting, files>>

\* any(call['method'] in text_methods for call in calls)  (lines 154-160)
uses_text(calls) == \E i \in 1..Len(calls) : calls[i].method \in text_methods

\* Variant: an export alone decides.
canvas_verdict_export_only == ~IsNone(canvas_call_stack)

\* line 161
canvas_verdict == uses_text(canvas.calls) /\ ~IsNone(canvas_call_stack)

\* Variant: the failed unpacking of a string without a comma is not caught.
decode_image_uncaught(image) ==
    IF IsNone(image) \/ Val(image).kind # "string"
    THEN [raised |-> "AttributeError", content |-> None]
    ELSE LET parts == str_split_once(Val(image).chars) IN
         IF Len(parts) # 2
         THEN [raised |-> "ValueError", content |-> None]
         ELSE IF str_contains(parts[1], Str_base64)
         THEN LET d == b64decode(parts[2]) IN
              [raised |-> "none", content |-> IF d.ok THEN Some(d.bytes) ELSE None]
         ELSE [raised |-> "none", content |-> None]

\* Lines 164-170: [raised, content]. split on a non-string is AttributeError,
\* which is not caught; a failed unpacking and binascii.Error are ValueError.
decode_image(image) ==
    IF IsNone(image) \/ Val(image).kind # "string"
    THEN [raised |-> "AttributeError", content |-> None]
    ELSE LET parts == str_split_once(Val(image).chars) IN
         IF Len(parts) # 2
         THEN [raised |-> "none", content |-> None]
         ELSE IF str_contains(parts[1], Str_base64)
         THEN LET d == b64decode(parts[2]) IN
              [raised |-> "none", content |-> IF d.ok THEN Some(d.bytes) ELSE None]
         ELSE [raised |-> "none", content |-> None]

\* if content:  (None and b'' are both false)
truthy(content) == ~IsNone(content) /\ Val(content) # <<>>

\* Lines 173-181, for one category: the dict after the check of its call stack.
category_after(state, call_stack) ==
    IF ~IsNone(call_stack)
    THEN SetItem(SetItem(state, "is_fingerprinting", TRUE), "call_stack", Val(call_stack))
    ELSE state

\* Variant: a captured stack is attached even when no text was drawn.
canvas_finalized_stack_always ==
    IF ~IsNone(canvas_call_stack)
    THEN SetItem(SetItem(canvas, "is_fingerprinting",
                         canvas.is_fingerprinting \/ uses_text(canvas.calls)),
                 "call_stack", Val(canvas_call_stack))
    ELSE canvas

\* self._canvas after lines 161-163
canvas_finalized ==
    IF canvas_verdict
    THEN SetItem(SetItem(canvas, "is_fingerprinting", TRUE),
                 "call_stack", Val(canvas_call_stack))
    ELSE canvas

extract_canvas ==
    LET dec == decode_image(canvas_image)
        escaped == canvas_verdict /\ dec.raised # "none"
    IN /\ canvas' = canvas_finalized
       /\ files' = IF canvas_verdict /\ ~escaped /\ truthy(dec.content)
                   THEN Append(files, [name |-> "fingerprinting_canvas",
                                       content |-> Val(dec.content)])
                   ELSE files
       /\ raised' = IF escaped THEN dec.raised ELSE "none"
       /\ audio' = IF escaped THEN audio ELSE category_after(audio, audio_call_stack)
       /\ webgl' = IF escaped THEN webgl ELSE category_after(webgl, webgl_call_stack)
       /\ misc' = IF escaped THEN misc ELSE category_after(misc, misc_call_stack)
       /\ UNCHANGED <<canvas_call_stack, audio_call_stack, webgl_call_stack,
                      misc_call_stack, canvas_image>>

extract_information ==
    /\ result_fingerprinting' = Some([canvas |-> "_canvas", audio |-> "_audio",
                                      webgl |-> "_webgl", misc |-> "_misc"])
    /\ extract_canvas

\* The dict an attribute of the extractor refers to.
Attr(name) ==
    CASE name = "_canvas" -> canvas
      [] name = "_audio" -> audio
      [] name = "_webgl" -> webgl
      [] name = "_misc" -> misc

\* result['fingerprinting'] as a reader sees it: the dicts it refers to.
Exposed ==
    IF IsNone(result_fingerprinting) THEN None
    ELSE Some([c \in DOMAIN Val(result_fingerprinting) |->
                   Attr(Val(result_fingerprinting)[c])])

-----------------------------------------------------------------------------
(* The environment: the session driver delivers log events and asks for    *)
(* the result; the history variables record what it did.                   *)

\* What a message says was called or accessed: the message without its retval.
Observed(message) == [k \in (DOMAIN message) \ {"retval"} |-> message[k]]

Deliver(log_type, message, call_stack) ==
    /\ n_events < MaxEvents
    /\ receive_log(log_type, message, call_stack)
    /\ n_events' = n_events + 1
    /\ received' = IF log_type \in Channels
                   THEN [received EXCEPT ![log_type] = Append(@, Observed(message))]
                   ELSE received
    /\ last_export' = IF log_type = "fingerprinting:canvas" /\ message.name = export_method
                      THEN Some([message |-> message, call_stack |-> call_stack])
                      ELSE last_export
    /\ UNCHANGED <<n_extract, js, othervars>>

Finalize ==
    /\ n_extract < MaxExtract
    /\ extract_information
    /\ n_extract' = n_extract + 1
    /\ UNCHANGED <<received, last_export, n_events, js, othervars>>

-----------------------------------------------------------------------------
(* INSTRUMENTATION_JS: calls of the function instrumentFunction returns    *)
(* and of the accessors instrumentProperty installs.                       *)

\* The functions instrumentObject wraps (lines 74-97), with their channels.
InstrumentedFunctions ==
    {[name |-> "HTMLCanvasElement.toDataURL", log_type |-> "fingerprinting:canvas"],
     [name |-> "CanvasRenderingContext2D.fillText", log_type |-> "fingerprinting:canvas"],
     [name |-> "WebGLRenderingContext.getParameter", log_type |-> "fingerprinting:webgl"],
     [name |-> "localStorage.getItem", log_type |-> "fingerprinting:misc"]}
\* The accessors instrumentProperty is called for (lines 98-113).
InstrumentedProperties ==
    {[name |-> "userAgent", log_type |-> "fingerprinting:misc"],
     [name |-> "colorDepth", log_type |-> "fingerprinting:misc"]}
Receivers == {"object1", "object2", "object3"}
ArgumentLists == {<<>>, <<"a">>, <<"a", "b">>}
\* What the original function may return.
OriginalRetvals == {JsUndefined, JsNull, JsString(Url_A)}
\* The original throws instead of returning.
JsThrows == [kind |-> "throw", chars |-> <<>>]
OriginalOutcomes == OriginalRetvals \cup {JsThrows}
\* An own property descriptor, by whether it has a get and a set function
\* (a data descriptor has neither).
Descriptors == [get : BOOLEAN, set : BOOLEAN]

\* What the wrapper hands back to its caller (lines 8-16): the function body
\* ends after log(...) without a return statement; an exception of the
\* original propagates.
wrapper_return(retval) == IF retval.kind = "throw" THEN retval ELSE JsUndefined

\* func.apply(this, arguments): the receiver and arguments the original sees
apply_original(this, arguments) == [this |-> this, arguments |-> arguments]

\* The wrapper's body (lines 9-15): the original, then log(...) if it returned.
function_steps(func, arguments, retval) ==
    IF retval.kind = "throw"
    THEN [trace |-> <<"original">>, logged |-> <<>>]
    ELSE [trace |-> <<"original", "log">>,
          logged |-> <<[log_type |-> func.log_type,
                        message |-> FunctionMessage(func.name, arguments, retval)]>>]

\* One call of the wrapper: the original runs, then the event is logged.
call_wrapper(func, this, arguments, retval) ==
    /\ js' = [called |-> TRUE,
              kind |-> "function",
              name |-> func.name,
              log_type |-> func.log_type,
              this |-> this,
              arguments |-> arguments,
              original |-> Some(apply_original(this, arguments)),
              original_retval |-> retval,
              logged |-> function_steps(func, arguments, retval).logged,
              trace |-> function_steps(func, arguments, retval).trace,
              returned |-> wrapper_return(retval)]
    /\ UNCHANGED <<pyvars, histvars, othervars>>

\* origGetter.apply(this, arguments) (line 39): a TypeError when the
\* descriptor has no get function, else what the original getter does.
getter_outcome(descriptor, outcome) == IF descriptor.get THEN outcome ELSE JsThrows
\* origSetter.apply(this, arguments) (line 55)
setter_outcome(descriptor, outcome) == IF descriptor.set THEN outcome ELSE JsThrows

\* The installed getter's body (lines 39-46).
get_steps(prop, descriptor, outcome) ==
    IF getter_outcome(descriptor, outcome).kind = "throw"
    THEN [trace |-> IF descriptor.get THEN <<"original">> ELSE <<>>, logged |-> <<>>]
    ELSE [trace |-> <<"original", "log">>,
          logged |-> <<[log_type |-> prop.log_type,
                        message |-> PropertyMessage(prop.name, outcome, "get")]>>]

\* Variant: the setter logs after the original setter has returned.
set_steps_log_after(prop, descriptor, arguments, outcome) ==
    IF setter_outcome(descriptor, outcome).kind = "throw"
    THEN [trace |-> IF descriptor.set THEN <<"original">> ELSE <<>>, logged |-> <<>>]
    ELSE [trace |-> <<"original", "log">>,
          logged |-> <<[log_type |-> prop.log_type,
                        message |-> PropertyMessage(prop.name, arguments[1], "set")]>>]

\* The installed setter's body (lines 49-55): log(...), then the original.
set_steps(prop, descriptor, arguments, outcome) ==
    [trace |-> IF descriptor.set THEN <<"log", "original">> ELSE <<"log">>,
     logged |-> <<[log_type |-> prop.log_type,
                   message |-> PropertyMessage(prop.name, arguments[1], "set")]>>]

\* One read of an instrumented property.
call_getter(prop, descriptor, this, outcome) ==
    /\ js' = [called |-> TRUE,
              kind |-> "get",
              name |-> prop.name,
              log_type |-> prop.log_type,
              this |-> this,
              arguments |-> <<>>,
              original |-> IF descriptor.get THEN Some(apply_original(this, <<>>))
                           ELSE None,
              original_retval |-> getter_outcome(descriptor, outcome),
              logged |-> get_steps(prop, descriptor, outcome).logged,
              trace |-> get_steps(prop, descriptor, outcome).trace,
              returned |-> getter_outcome(descriptor, outcome)]
    /\ UNCHANGED <<pyvars, histvars, othervars>>

\* One write of an instrumented property.
call_setter(prop, descriptor, this, arguments, outcome) ==
    /\ js' = [called |-> TRUE,
              kind |-> "set",
              name |-> prop.name,
              log_type |-> prop.log_type,
              this |-> this,
              arguments |-> arguments,
              original |-> IF descriptor.set THEN Some(apply_original(this, arguments))
                           ELSE None,
              original_retval |-> setter_outcome(descriptor, outcome),
              logged |-> set_steps(prop, descriptor, arguments, outcome).logged,
              trace |-> set_steps(prop, descriptor, arguments, outcome).trace,
              returned |-> setter_outcome(descriptor, outcome)]
    /\ UNCHANGED <<pyvars, histvars, othervars>>

NextJS ==
    \/ \E func \in InstrumentedFunctions, this \in Receivers,
          arguments \in ArgumentLists, retval \in OriginalOutcomes :
           call_wrapper(func, this, arguments, retval)
    \/ \E prop \in InstrumentedProperties, descriptor \in Descriptors,
          this \in Receivers, outcome \in {JsString(<<"X">>), JsThrows} :
           call_getter(prop, descriptor, this, outcome)
    \/ \E prop \in InstrumentedProperties, descriptor \in Descriptors,
          this \in Receivers, outcome \in {JsUndefined, JsThrows} :
           call_setter(prop, descriptor, this, <<JsString(<<"Y">>)>>, outcome)

SpecJS == Init /\ [][NextJS]_vars

-----------------------------------------------------------------------------
(* INSTRUMENTATION_JS: instrumentProperty(obj, name, prop, log_type).      *)
(* A prototype chain is the sequence obj, its prototype, ... ; each object *)
(* is its own descriptor for prop (None when it has none), and the         *)
(* prototype of the last object is null (position 0).                      *)

PrototypeChains ==
    UNION {[1..n -> {None} \cup {Some(d) : d \in Descriptors}] : n \in 1..MaxChain}

\* Object.getOwnPropertyDescriptor(prototype, prop) (line 23)
getOwnPropertyDescriptor(chain, prototype) == chain[prototype]

\* Variant: the walk stays on the same object.
getPrototypeOf_same(chain, prototype) == prototype

\* Object.getPrototypeOf(prototype) (line 27): null after the last object
getPrototypeOf(chain, prototype) ==
    IF prototype < Len(chain) THEN prototype + 1 ELSE 0

\* let prototype = obj; let descriptor;  (lines 20-21)
ip_enter(chain) ==
    /\ ip.pc = "idle"
    /\ ip' = [pc |-> "loop", chain |-> chain, prototype |-> 1, descriptor |-> None,
              own |-> chain[1], logged |-> <<>>, error |-> FALSE]
    /\ UNCHANGED <<pyvars, histvars, js, net>>

\* One pass of the do-while body and its condition (lines 22-28).
ip_loop ==
    /\ ip.pc = "loop"
    /\ LET d == getOwnPropertyDescriptor(ip.chain, ip.prototype)
           next == getPrototypeOf(ip.chain, ip.prototype)
       IN IF ~IsNone(d)
          THEN ip' = [ip EXCEPT !.descriptor = d, !.pc = "after_loop"]
          ELSE ip' = [ip EXCEPT !.descriptor = d, !.prototype = next,
                                !.pc = IF next # 0 THEN "loop" ELSE "after_loop"]
    /\ UNCHANGED <<pyvars, histvars, js, net>>

\* Lines 30-58: return when no descriptor was found, else define the
\* accessor on obj, over the get and set of the descriptor found.
ip_install ==
    /\ ip.pc = "after_loop"
    /\ IF IsNone(ip.descriptor)
       THEN ip' = [ip EXCEPT !.pc = "done"]
       ELSE ip' = [ip EXCEPT !.pc = "done",
                             !.own = Some([get |-> TRUE, set |-> TRUE,
                                           origGetter |-> Val(ip.descriptor).get,
                                           origSetter |-> Val(ip.descriptor).set])]
    /\ UNCHANGED <<pyvars, histvars, js, net>>

NextIP ==
    \/ \E chain \in PrototypeChains : ip_enter(chain)
    \/ ip_loop
    \/ ip_install

\* The page's script engine runs the call to its end.
SpecIP == Init /\ [][NextIP]_vars /\ WF_vars(NextIP)

-----------------------------------------------------------------------------
(* scanmodules/network.py: scan_site(result, logger, options).             *)
(* net.result is the result dict, net.requests the calls of _retrieve_url. *)
(* A page's content is the set of its tokens that _jaccard_index keeps.    *)

MINIMUM_SIMILARITY_PERCENT == 90

Url_http == <<"h", "t", "t", "p", ":", "/", "/", "s">>
Url_https == <<"h", "t", "t", "p", "s", ":", "/", "/", "s">>
SiteUrls == {Url_http, Url_https}
ARecordLists == {<<>>, <<"192.0.2.1">>, <<"192.0.2.1", "192.0.2.2">>}
Contents == {{}, {"a"}, {"b"}, {"a", "b"}}
\* What a call of _retrieve_url(url) does: returns (r.url, r.content), raises
\* HTTPError (with the response's content) or another RequestException.
RetrieveOutcomes(url) ==
    {[kind |-> "ok", url |-> u, content |-> c] : u \in {url, Url_https}, c \in Contents}
    \cup {[kind |-> "HTTPError", url |-> url, content |-> c] : c \in Contents}
    \cup {[kind |-> "RequestException", url |-> url, content |-> {}]}

\* final_url.startswith('https://')
starts_with_https(url) ==
    Len(url) >= 8 /\ SubSeq(url, 1, 8) = <<"h", "t", "t", "p", "s", ":", "/", "/">>

\* 'https:/' + site_url.split('/', maxsplit=1)[1]  (line 73)
https_url_of(site_url) ==
    LET i == CHOOSE k \in 1..Len(site_url) :
                 site_url[k] = "/" /\ \A j \in 1..(k - 1) : site_url[j] # "/"
    IN <<"h", "t", "t", "p", "s", ":", "/">> \o SubSeq(site_url, i + 1, Len(site_url))

\* _jaccard_index(a, b) > minimum_similarity, or ZeroDivisionError when
\* neither page has a token
jaccard_defined(a, b) == (a \cup b) # {}
similar(a, b) ==
    100 * Cardinality(a \cap b) > MINIMUM_SIMILARITY_PERCENT * Cardinality(a \cup b)

\* Lines 30-44: the DNS records are inserted, reachable is set, and an empty
\* A-record list ends the scan.
result_after_dns(site_url, a_records) ==
    LET r == [site_url |-> site_url, a_records |-> a_records, reachable |-> TRUE]
    IN IF a_records = <<>>
       THEN SetItem(SetItem(r, "dns_error", TRUE), "reachable", FALSE)
       ELSE r

scan_site_dns(site_url, a_records) ==
    /\ net.pc = "idle"
    /\ net' = [pc |-> IF a_records = <<>> THEN "returned" ELSE "retrieve",
               result |-> result_after_dns(site_url, a_records),
               requests |-> <<>>,
               content |-> {}]
    /\ UNCHANGED <<pyvars, histvars, js, ip>>

\* Variant: a RequestException leaves reachable as it was.
result_after_retrieve_unflagged(r, outcome) ==
    LET final_url == IF outcome.kind = "ok" THEN outcome.url ELSE r.site_url
        flagged == IF outcome.kind = "HTTPError"
                   THEN SetItem(SetItem(r, "reachable", FALSE), "http_error", "HTTPError")
                   ELSE r
    IN SetItem(flagged, "final_url", final_url)

\* Lines 48-60: the try statement around _retrieve_url(site_url).
result_after_retrieve(r, outcome) ==
    LET final_url == IF outcome.kind = "ok" THEN outcome.url ELSE r.site_url
        flagged == CASE outcome.kind = "HTTPError" ->
                          SetItem(SetItem(r, "reachable", FALSE), "http_error", "HTTPError")
                     [] outcome.kind = "RequestException" ->
                          SetItem(r, "reachable", FALSE)
                     [] OTHER -> r
    IN SetItem(flagged, "final_url", final_url)

\* Lines 48-71: the retrieval of site_url, and the HTTPS shortcut.
scan_site_retrieve(outcome) ==
    /\ net.pc = "retrieve"
    /\ LET r == result_after_retrieve(net.result, outcome)
           is_https == starts_with_https(r.final_url)
           r2 == SetItem(r, "final_url_is_https", is_https)
       IN net' = IF outcome.kind = "RequestException"
                 THEN [net EXCEPT !.pc = "returned", !.result = r,
                                  !.requests = Append(@, outcome)]
                 ELSE IF is_https
                 THEN [net EXCEPT !.pc = "returned",
                                  !.result = SetItem(r2, "final_https_url", r.final_url),
                                  !.requests = Append(@, outcome),
                                  !.content = outcome.content]
                 ELSE [net EXCEPT !.pc = "retrieve_https", !.result = r2,
                                  !.requests = Append(@, outcome),
                                  !.content = outcome.content]
    /\ UNCHANGED <<pyvars, histvars, js, ip>>

\* Lines 73-89: the retrieval of the HTTPS version and the comparison.
scan_site_retrieve_https(outcome) ==
    /\ net.pc = "retrieve_https"
    /\ LET r == net.result IN
       net' = CASE outcome.kind = "HTTPError" ->
                     [net EXCEPT !.pc = "returned",
                                 !.result = SetItem(SetItem(r, "https_error", "HTTPError"),
                                                    "final_https_url", outcome.url),
                                 !.requests = Append(@, outcome)]
                [] outcome.kind = "RequestException" ->
                     [net EXCEPT !.pc = "returned",
                                 !.result = SetItem(r, "final_https_url", None),
                                 !.requests = Append(@, outcome)]
                [] OTHER ->
                     IF jaccard_defined(net.content, outcome.content)
                     THEN [net EXCEPT !.pc = "returned",
                                      !.result = SetItem(SetItem(r, "final_https_url",
                                                                 outcome.url),
                                                         "same_content_via_https",
                                                         similar(net.content, outcome.content)),
                                      !.requests = Append(@, outcome)]
                     ELSE [net EXCEPT !.pc = "raised",
                                      !.result = SetItem(r, "final_https_url", outcome.url),
                                      !.requests = Append(@, outcome)]
    /\ UNCHANGED <<pyvars, histvars, js, ip>>

NextNet ==
    \/ \E site_url \in SiteUrls, a_records \in ARecordLists :
          scan_site_dns(site_url, a_records)
    \/ /\ net.pc = "retrieve"
       /\ \E outcome \in RetrieveOutcomes(net.result.site_url) :
             scan_site_retrieve(outcome)
    \/ /\ net.pc = "retrieve_https"
       /\ \E outcome \in RetrieveOutcomes(https_url_of(net.result.site_url)) :
             scan_site_retrieve_https(outcome)

SpecNet == Init /\ [][NextNet]_vars

Next ==
    \/ \E log_type \in LogTypes :
          \E message \in MessagesOn(log_type), call_stack \in CallStacks :
             Deliver(log_type, message, call_stack)
    \/ Finalize

Spec == Init /\ [][Next]_vars

-----------------------------------------------------------------------------
(* Properties.                                                             *)

CanvasReceived == received["fingerprinting:canvas"]
TextDrawRecorded ==
    \E i \in 1..Len(canvas.calls) : canvas.calls[i].method \in text_methods
ExportReceived ==
    \E i \in 1..Len(CanvasReceived) : CanvasReceived[i].name = export_method
Finalizing == n_extract' = n_extract + 1
Delivering == n_events' = n_events + 1

\* C1: every extract_information call leaves canvas.is_fingerprinting true
\* exactly when a text-drawing call is recorded and a toDataURL event was
\* received on the canvas channel.
C1_CanvasRule ==
    [][Finalizing =>
         (canvas'.is_fingerprinting <=> (TextDrawRecorded' /\ ExportReceived'))]_vars

\* Before any extract_information call the verdict is false; afterwards it is
\* the conjunction, whatever was delivered since.
C1_Witness ==
    /\ n_extract > 0
    /\ canvas.is_fingerprinting
    /\ TextDrawRecorded
    /\ ExportReceived

\* C2 (as claimed): the wrapper calls the original with the caller's receiver
\* and arguments and returns what the original returned.
C2_Transparent ==
    (js.called /\ js.kind = "function") =>
        /\ js.original = <<[this |-> js.this, arguments |-> js.arguments]>>
        /\ js.returned = js.original_retval

\* C3: canvas.calls is, in order and with duplicates, the {method, arguments}
\* of every event received on the canvas channel, and has as many entries.
C3_CanvasOrder ==
    /\ Len(canvas.calls) = Len(CanvasReceived)
    /\ \A i \in 1..Len(CanvasReceived) :
          canvas.calls[i] = [method |-> CanvasReceived[i].name,
                             arguments |-> CanvasReceived[i].arguments]

\* fillText, toDataURL, fillText: three records, the first and third equal.
C3_Witness ==
    /\ Len(canvas.calls) = 3
    /\ canvas.calls[1] = canvas.calls[3]
    /\ canvas.calls[1].method = "CanvasRenderingContext2D.fillText"
    /\ canvas.calls[2].method = export_method

\* The record a received event stands for: <<>> when it stands for none.
RecordOf(event) ==
    IF event.type = "function"
    THEN <<[method |-> event.name, arguments |-> event.arguments]>>
    ELSE IF event.name \in {"userAgent", "language", "languages", "colorDepth"}
    THEN <<[property |-> event.name, value |-> event.value]>>
    ELSE <<>>

\* The distinct records of a sequence of events, in order of first occurrence.
RECURSIVE FirstOccurrences(_)
FirstOccurrences(events) ==
    IF events = <<>> THEN <<>>
    ELSE LET n == Len(events)
             before == FirstOccurrences(SubSeq(events, 1, n - 1))
             r == RecordOf(events[n])
         IN IF r = <<>> \/ \E i \in 1..Len(before) : before[i] = r[1]
            THEN before
            ELSE before \o r

NoDuplicates(calls) ==
    \A i, j \in 1..Len(calls) : calls[i] = calls[j] => i = j

C5_ReadOnlyAfterFinalize ==
    [][~IsNone(Exposed) => Exposed' = Exposed]_vars

Categories == <<canvas, audio, webgl, misc>>

\* C6: before the first extract_information call every category has
\* is_fingerprinting = false and no call_stack entry.
C6_NoVerdictDuringIngestion ==
    n_extract = 0 =>
        \A i \in 1..4 : /\ Categories[i].is_fingerprinting = FALSE
                        /\ ~HasKey(Categories[i], "call_stack")

\* A text draw and an export are in, and nothing is finalized yet.
C6_Witness ==
    /\ n_extract = 0
    /\ TextDrawRecorded
    /\ ExportReceived
    /\ ~IsNone(canvas_call_stack)

\* C7: audio, webgl and misc never have is_fingerprinting = true nor a
\* call_stack entry, whatever they recorded and whenever the result is built.
C7_InertCategories ==
    \A i \in 2..4 : /\ Categories[i].is_fingerprinting = FALSE
                    /\ ~HasKey(Categories[i], "call_stack")

C7_Witness ==
    /\ n_extract > 0
    /\ audio.calls # <<>>
    /\ webgl.calls # <<>>
    /\ misc.calls # <<>>

\* The state of one category: its dict and what its handler captures.
CategoryState(c) ==
    CASE c = "fingerprinting:canvas" -> <<canvas, canvas_call_stack, canvas_image>>
      [] c = "fingerprinting:audio" -> <<audio, audio_call_stack>>
      [] c = "fingerprinting:webgl" -> <<webgl, webgl_call_stack>>
      [] c = "fingerprinting:misc" -> <<misc, misc_call_stack>>

\* C8: a delivered event changes the state of no category but the one whose
\* channel it names, and an event on any other channel name changes nothing
\* and raises nothing.
C8_Routing ==
    [][Delivering =>
         /\ \A c \in Channels :
               received'[c] = received[c] => CategoryState(c)' = CategoryState(c)
         /\ received' = received =>
               /\ raised' = "none"
               /\ <<result_fingerprinting, files>>' = <<result_fingerprinting, files>>]_vars

\* One event on the canvas channel, one on misc, one on an unbound channel.
C8_Witness ==
    /\ n_events = 3
    /\ Len(received["fingerprinting:canvas"]) = 1
    /\ Len(received["fingerprinting:misc"]) = 1
    /\ Len(received["fingerprinting:audio"]) = 0
    /\ Len(received["fingerprinting:webgl"]) = 0

\* The most recent export's return value, read from the history.
LastRetval == Val(last_export).message.retval
HasComma(chars) == \E i \in 1..Len(chars) : chars[i] = ","
FirstComma(chars) ==
    CHOOSE i \in 1..Len(chars) :
        chars[i] = "," /\ \A j \in 1..Len(chars) : chars[j] = "," => i <= j
HeaderOf(chars) == SubSeq(chars, 1, FirstComma(chars) - 1)
PayloadOf(chars) == SubSeq(chars, FirstComma(chars) + 1, Len(chars))
SignalsBase64(chars) ==
    \E i \in 1..Len(chars) :
        i + 5 <= Len(chars) /\ <<chars[i], chars[i + 1], chars[i + 2],
                                 chars[i + 3], chars[i + 4], chars[i + 5]>>
                               = <<"b", "a", "s", "e", "6", "4">>
\* The last export is a string with no comma, or with a header without base64.
NotDecodableUrl ==
    /\ ~IsNone(last_export)
    /\ LastRetval.kind = "string"
    /\ \/ ~HasComma(LastRetval.chars)
       \/ ~SignalsBase64(HeaderOf(LastRetval.chars))
\* The last export is a string with a comma and a header signalling base64.
Base64Url ==
    /\ ~IsNone(last_export)
    /\ LastRetval.kind = "string"
    /\ HasComma(LastRetval.chars)
    /\ SignalsBase64(HeaderOf(LastRetval.chars))

\* C9: a finalization that declares canvas fingerprinting while the most recent
\* export has no comma, or a header without the base64 marker, raises nothing,
\* adds no artifact and sets canvas.is_fingerprinting.
C9_MalformedTolerated ==
    [][(Finalizing /\ TextDrawRecorded /\ NotDecodableUrl) =>
         /\ raised' = "none"
         /\ files' = files
         /\ canvas'.is_fingerprinting]_vars

C9_Witness ==
    /\ n_extract > 0
    /\ NotDecodableUrl
    /\ ~HasComma(LastRetval.chars)
    /\ canvas.is_fingerprinting
    /\ files = <<>>
    /\ raised = "none"

Artifact(bytes) == [name |-> "fingerprinting_canvas", content |-> bytes]

\* C10 (as claimed): a finalization with a positive canvas decision whose most
\* recent export has a comma and a base64 header adds exactly one artifact,
\* the base64 decoding of the part after the first comma, for every payload.
C10_ArtifactForEveryPayload ==
    [][(Finalizing /\ TextDrawRecorded /\ Base64Url) =>
         files' = Append(files, Artifact(b64decode(PayloadOf(LastRetval.chars)).bytes))]_vars

\* C10 (amended): such a finalization adds exactly one artifact, the decoding
\* of the part after the first comma of the most recent export, when that
\* payload decodes to at least one byte; when the payload is empty, decodes
\* to no byte or cannot be decoded, it adds no artifact.
C10_Artifact ==
    [][(Finalizing /\ TextDrawRecorded /\ Base64Url) =>
         LET d == b64decode(PayloadOf(LastRetval.chars)) IN
         IF d.ok /\ d.bytes # <<>>
         THEN files' = Append(files, Artifact(d.bytes))
         ELSE files' = files]_vars

\* Two exports were received, the later one of "B": the artifact is "B".
C10_Witness ==
    /\ n_extract = 1
    /\ Len(SelectSeq(CanvasReceived, LAMBDA e : e.name = export_method)) = 2
    /\ ~IsNone(last_export)
    /\ LastRetval = JsString(Url_B)
    /\ files = <<Artifact(<<66>>)>>

\* C11: a call_stack left on the canvas state by a finalization is the call
\* stack delivered with the most recent toDataURL event without its first
\* frame; no stack of a text-drawing event or of an earlier export.
C11_MostRecentStack ==
    [][(Finalizing /\ HasKey(canvas', "call_stack")) =>
         /\ ~IsNone(last_export')
         /\ LET s == Val(last_export').call_stack IN
            canvas'.call_stack = [i \in 1..(Len(s) - 1) |-> s[i + 1]]]_vars

\* Two exports were received, the later one from page.js.
C11_Witness ==
    /\ n_extract > 0
    /\ Len(SelectSeq(CanvasReceived, LAMBDA e : e.name = export_method)) = 2
    /\ ~IsNone(last_export)
    /\ Val(last_export).call_stack = <<"wrapper", "page.js">>
    /\ HasKey(canvas, "call_stack")
    /\ canvas.call_stack = <<"page.js">>

\* C12 (as claimed): no extract_information call raises, whatever the retval
\* of the function events delivered before it.
C12_NoExceptionEscapes ==
    [][Finalizing => raised' = "none"]_vars

MiscReceived == received["fingerprinting:misc"]
TrackedNames == {"userAgent", "language", "languages", "colorDepth"}
NeitherShape(event) ==
    event.name \notin TrackedNames /\ "arguments" \notin DOMAIN event
PropertyShape(record) == DOMAIN record = {"property", "value"}
MethodShape(record) == DOMAIN record = {"method", "arguments"}

\* C13: a misc event that is neither a tracked accessor nor carries arguments
\* raises an error and leaves misc unchanged, and no record of another shape
\* than {property, value} or {method, arguments} is ever in misc.calls.
C13_NeitherShapeRejected ==
    [][/\ (/\ Delivering
           /\ Len(MiscReceived') = Len(MiscReceived) + 1
           /\ NeitherShape(MiscReceived'[Len(MiscReceived')]))
          => (raised' # "none" /\ misc' = misc)
       /\ \A i \in 1..Len(misc'.calls) :
             PropertyShape(misc'.calls[i]) \/ MethodShape(misc'.calls[i])]_vars

\* One misc event was stored and a later one of neither shape was rejected.
C13_Witness ==
    /\ Len(MiscReceived) = 2
    /\ NeitherShape(MiscReceived[2])
    /\ raised = "UnboundLocalError"
    /\ Len(misc.calls) = 1

\* The records of misc.calls, as a set.
MiscRecords == {misc.calls[i] : i \in 1..Len(misc.calls)}

\* C14: every record of misc.calls is {property, value} of a received tracked
\* accessor message or {method, arguments} of a received message of another
\* name carrying arguments, every such message has its record, and no record
\* has keys of both shapes.
C14_MiscShapes ==
    /\ \A r \in MiscRecords :
          \/ /\ PropertyShape(r)
             /\ \E i \in 1..Len(MiscReceived) :
                   /\ MiscReceived[i].name \in TrackedNames
                   /\ r.property = MiscReceived[i].name
                   /\ r.value = MiscReceived[i].value
          \/ /\ MethodShape(r)
             /\ \E i \in 1..Len(MiscReceived) :
                   /\ MiscReceived[i].name \notin TrackedNames
                   /\ "arguments" \in DOMAIN MiscReceived[i]
                   /\ r.method = MiscReceived[i].name
                   /\ r.arguments = MiscReceived[i].arguments
    /\ \A i \in 1..Len(MiscReceived) :
          LET e == MiscReceived[i] IN
          IF e.name \in TrackedNames
          THEN [property |-> e.name, value |-> e.value] \in MiscRecords
          ELSE "arguments" \in DOMAIN e =>
                  [method |-> e.name, arguments |-> e.arguments] \in MiscRecords

\* userAgent read and setItem called: one record of each shape.
C14_Witness ==
    /\ [property |-> "userAgent", value |-> "X"] \in MiscRecords
    /\ [method |-> "localStorage.setItem", arguments |-> <<"k", "v">>] \in MiscRecords

\* C17: in every state and for each category, the dict has a call_stack entry
\* exactly when its is_fingerprinting is true.
C17_StackIffVerdict ==
    \A i \in 1..4 :
        HasKey(Categories[i], "call_stack") <=> Categories[i].is_fingerprinting

\* An export without a text draw was finalized: the stack was captured and is
\* not in the result.
C17_Witness ==
    /\ n_extract > 0
    /\ ~TextDrawRecorded
    /\ ~IsNone(canvas_call_stack)
    /\ ~HasKey(canvas, "call_stack")
    /\ ~canvas.is_fingerprinting

AppendedOrSame(old, new) ==
    \/ new = old
    \/ /\ Len(new) = Len(old) + 1
       /\ SubSeq(new, 1, Len(old)) = old

\* C18: every step leaves each category's calls unchanged or appends exactly
\* one record at its end.
C18_AppendOnly ==
    [][\A i \in 1..4 : AppendedOrSame(Categories[i].calls, (Categories')[i].calls)]_vars

\* A repeated audio call left audio.calls alone after other records were stored.
C18_Witness ==
    /\ Len(received["fingerprinting:audio"]) = 3
    /\ Len(audio.calls) = 2
    /\ received["fingerprinting:audio"][3] = received["fingerprinting:audio"][1]

\* C19: a get event and a set event for the same tracked property with the
\* same value are stored as one {property, value} record, and no record of
\* misc.calls tells the access kind.
C19_AccessKindCollapsed ==
    /\ \A r \in MiscRecords : "access" \notin DOMAIN r
    /\ \A i, j \in 1..Len(MiscReceived) :
          LET a == MiscReceived[i]
              b == MiscReceived[j]
          IN (/\ a.name \in TrackedNames /\ b.name = a.name
              /\ a.value = b.value /\ a.access = "get" /\ b.access = "set")
             => Cardinality({k \in 1..Len(misc.calls) :
                                 /\ PropertyShape(misc.calls[k])
                                 /\ misc.calls[k].property = a.name}) = 1

\* userAgent was read and written with the same value: one record.
C19_Witness ==
    /\ \E i, j \in 1..Len(MiscReceived) :
          /\ MiscReceived[i] = [type |-> "property", name |-> "userAgent",
                                value |-> "X", access |-> "get"]
          /\ MiscReceived[j] = [type |-> "property", name |-> "userAgent",
                                value |-> "X", access |-> "set"]
    /\ misc.calls = <<[property |-> "userAgent", value |-> "X"]>>

OriginalBeforeLog(trace) ==
    \E i, j \in 1..Len(trace) : i < j /\ trace[i] = "original" /\ trace[j] = "log"
LogFirst(trace) == trace # <<>> /\ trace[1] = "log"
OneEventOnChannel ==
    Len(js.logged) = 1 /\ js.logged[1].log_type = js.log_type

\* C15 (as claimed): every call of a wrapped function, getter or setter emits
\* exactly one event on its channel; a function and a getter after the
\* original has completed, with its return value, a setter before delegating,
\* with its first argument.
C15_ExactlyOneEvent ==
    js.called =>
        /\ OneEventOnChannel
        /\ js.kind = "function" =>
              /\ OriginalBeforeLog(js.trace)
              /\ js.logged[1].message.retval = js.original_retval
        /\ js.kind = "get" =>
              /\ OriginalBeforeLog(js.trace)
              /\ js.logged[1].message.value = js.original_retval
        /\ js.kind = "set" =>
              /\ LogFirst(js.trace)
              /\ js.logged[1].message.value = js.arguments[1]

\* C15 (amended): a call of a wrapped function or getter emits exactly one
\* event on its channel, after the original and with its return value, when
\* the original returns, and no event when it throws (or, for a getter, when
\* the descriptor has no get function); a call of a wrapped setter always
\* emits exactly one event, with its first argument, before delegating.
C15_EventOrder ==
    js.called =>
        /\ js.kind \in {"function", "get"} =>
              IF js.original_retval.kind = "throw"
              THEN js.logged = <<>> /\ "log" \notin {js.trace[i] : i \in 1..Len(js.trace)}
              ELSE /\ OneEventOnChannel
                   /\ js.trace = <<"original", "log">>
        /\ (js.kind = "function" /\ js.original_retval.kind # "throw") =>
              js.logged[1].message.retval = js.original_retval
        /\ (js.kind = "get" /\ js.original_retval.kind # "throw") =>
              js.logged[1].message.value = js.original_retval
        /\ js.kind = "set" =>
              /\ OneEventOnChannel
              /\ LogFirst(js.trace)
              /\ Len(SelectSeq(js.trace, LAMBDA t : t = "log")) = 1
              /\ js.logged[1].message.value = js.arguments[1]
              /\ js.logged[1].message.access = "set"

\* A setter whose original setter throws has logged its event all the same.
C15_Witness ==
    /\ js.called
    /\ js.kind = "set"
    /\ js.original_retval.kind = "throw"
    /\ js.trace = <<"log", "original">>
    /\ Len(js.logged) = 1

NoDescriptorInChain ==
    \A k \in 1..Len(ip.chain) : ip.chain[k] = <<>>

\* C16: every call of instrumentProperty on a finite prototype chain comes to
\* its end, and when no object of the chain has an own descriptor for the
\* property the target is as it was: no accessor, no log event, no error.
C16_WalkTerminates ==
    /\ <>(ip.pc = "done")
    /\ []((ip.pc = "done" /\ NoDescriptorInChain) =>
            /\ ip.own = ip.chain[1]
            /\ ip.own = <<>>
            /\ ip.logged = <<>>
            /\ ~ip.error)

\* The walk went over a chain of MaxChain objects, none with the property.
C16_Witness ==
    /\ ip.pc = "done"
    /\ Len(ip.chain) = 3
    /\ NoDescriptorInChain
    /\ ip.prototype = 0
    /\ ip.own = <<>>

\* C20: when scan_site has returned, reachable is true only if the A-record
\* list is not empty and the retrieval of site_url raised neither HTTPError nor
\* another RequestException; with an empty A-record list dns_error is true,
\* reachable is false, no URL was retrieved and final_url is not set.
C20_Reachable ==
    net.pc = "returned" =>
        /\ net.result.reachable =>
              /\ net.result.a_records # <<>>
              /\ Len(net.requests) >= 1
              /\ net.requests[1].url \in {net.result.site_url, Url_https}
              /\ net.requests[1].kind = "ok"
        /\ net.result.a_records = <<>> =>
              /\ HasKey(net.result, "dns_error") /\ net.result.dns_error
              /\ net.result.reachable = FALSE
              /\ net.requests = <<>>
              /\ ~HasKey(net.result, "final_url")

\* A site with an A record whose retrieval failed without an HTTP response.
C20_Witness ==
    /\ net.pc = "returned"
    /\ net.result.a_records # <<>>
    /\ Len(net.requests) = 1
    /\ net.requests[1].kind = "RequestException"
    /\ net.result.reachable = FALSE
    /\ net.result.final_url = net.result.site_url

=============================================================================
